---- MODULE Spec2Model ----
(***************************************************************************)
(* Model of seaborn_image._general: the two plotting entry points imgplot  *)
(* and imghist.  The caller holds an image array; a call on it is one      *)
(* action; the state after a call records the                              *)
(* exception it ended in (or "ok"), the rendering side effects it had, in  *)
(* order, the option set handed to _SetupImage, the axes of the figure and *)
(* the histogram panel.                                                    *)
(*                                                                         *)
(* Python values are records [t, s, n]: t the type name, s the text of a   *)
(* str (or the name of a Colormap object), n the number of an int, bool or *)
(* float.                                                                  *)
(***************************************************************************)
EXTENDS Integers, Sequences, FiniteSets

VARIABLES image, pc, fn, args, result, effects, setupCalls, axes, grid, histCalls, described

vars == <<image, pc, fn, args, result, effects, setupCalls, axes, grid, histCalls, described>>

(* ---------------- bounds of the model ---------------- *)

\* bins ranges over the integers -MaxBins .. MaxBins (and None, a float, True)
MaxBins == 2

(* ---------------- Python values ---------------- *)

PyNone == [t |-> "NoneType", s |-> "", n |-> 0]

PyBool(b) == [t |-> "bool", s |-> "", n |-> IF b THEN 1 ELSE 0]

PyTrue == PyBool(TRUE)

PyFalse == PyBool(FALSE)

PyInt(k) == [t |-> "int", s |-> "", n |-> k]

PyFloat(k) == [t |-> "float", s |-> "", n |-> k]

PyStr(x) == [t |-> "str", s |-> x, n |-> 0]

PyColormap(x) == [t |-> "Colormap", s |-> x, n |-> 0]

PyAxes == [t |-> "Axes", s |-> "", n |-> 0]

\* isinstance(v, bool)
IsBool(v) == v.t = "bool"

\* isinstance(v, int): bool is a subclass of int
IsInt(v) == v.t \in {"int", "bool"}

\* isinstance(v, str)
IsStr(v) == v.t = "str"

\* bool(v) of a validated bool
Truthy(v) == v.n # 0

(* ---------------- image data ---------------- *)

\* a numpy array of ndim dimensions, as the caller passes it
NdArray(d) == [t |-> "ndarray", ndim |-> d, src |-> "caller"]

\* an array-like that is not a numpy array (nested lists)
ListData(d) == [t |-> "list", ndim |-> d, src |-> "caller"]

\* skimage.color.rgb2gray: a new single-channel array
rgb2gray(data) == [t |-> "ndarray", ndim |-> data.ndim - 1, src |-> "rgb2gray"]

(* ---------------- imgplot: validation ---------------- *)

CheckCmap(cmap) ==
    IF cmap # PyNone /\ cmap.t \notin {"str", "Colormap"} THEN "TypeError" ELSE "ok"

CheckAx(ax) ==
    IF ax # PyNone /\ ax.t # "Axes" THEN "TypeError" ELSE "ok"

CheckBoolMutant(v) == "ok"

\* if not isinstance(x, bool): raise TypeError
CheckBool(v) == IF ~IsBool(v) THEN "TypeError" ELSE "ok"

PercCheckMutant(robust, perc) ==
    IF robust = PyTrue /\ ~(perc[1] <= perc[2]) THEN "AssertionError" ELSE "ok"

\* if robust is True: assert len(perc) == 2; assert perc[0] < perc[1]
PercCheck(robust, perc) ==
    IF robust = PyTrue /\ (Len(perc) # 2 \/ ~(perc[1] < perc[2]))
    THEN "AssertionError" ELSE "ok"

CheckOrientationStr(o) == IF ~IsStr(o) THEN "TypeError" ELSE "ok"

CheckCbarLabel(l) == IF l # PyNone /\ ~IsStr(l) THEN "TypeError" ELSE "ok"

\* the checks of imgplot in source order
ImgplotChecks(a) ==
    << CheckCmap(a.cmap), CheckAx(a.ax), CheckBool(a.describe), CheckBool(a.robust),
       PercCheck(a.robust, a.perc), CheckBool(a.cbar), CheckOrientationStr(a.orientation),
       CheckCbarLabel(a.cbar_label), CheckBool(a.showticks), CheckBool(a.despine) >>

RECURSIVE FirstFailure(_)
\* the exception of the first check that fails, "ok" when none does
FirstFailure(checks) ==
    IF checks = <<>> THEN "ok"
    ELSE IF Head(checks) # "ok" THEN Head(checks)
    ELSE FirstFailure(Tail(checks))

(* ---------------- imgplot: option resolution ---------------- *)

IsRGB(data) == data.t = "ndarray" /\ data.ndim = 3

ForcedCbarMutant(data, cbar) == cbar

\* cbar = False if the data is a 3-dimensional ndarray
ForcedCbar(data, cbar) == IF IsRGB(data) THEN PyFalse ELSE cbar

\* robust = False if the data is a 3-dimensional ndarray
ForcedRobust(data, robust) == IF IsRGB(data) THEN PyFalse ELSE robust

\* data = rgb2gray(data) if the data is a 3-dimensional ndarray and gray is True
GrayData(data, gray) == IF IsRGB(data) /\ gray = PyTrue THEN rgb2gray(data) ELSE data

GrayCmapMutant(cmap, gray) == IF gray = PyTrue THEN PyStr("gray") ELSE cmap

\* cmap = "gray" if gray is True and cmap is None
GrayCmap(cmap, gray) == IF gray = PyTrue /\ cmap = PyNone THEN PyStr("gray") ELSE cmap

\* the keyword set handed to _SetupImage
SetupOptions(a) ==
    [ data |-> GrayData(a.data, a.gray),
      ax |-> a.ax,
      cmap |-> GrayCmap(a.cmap, a.gray),
      robust |-> ForcedRobust(a.data, a.robust),
      perc |-> a.perc,
      cbar |-> ForcedCbar(a.data, a.cbar),
      orientation |-> a.orientation,
      cbar_label |-> a.cbar_label,
      showticks |-> a.showticks,
      despine |-> a.despine ]

(* ---------------- _SetupImage (seaborn_image._core) ---------------- *)

\* _SetupImage(...).plot(): draws on the given axes, or on a new figure with
\* one axes when ax is None, and attaches a colorbar axes iff cbar is set
SetupImagePlot(opts, figAxes) ==
    LET created == opts.ax = PyNone
        base == IF created THEN <<"ax">> ELSE figAxes
    IN [ axes |-> IF opts.cbar = PyTrue THEN Append(base, "cax") ELSE base,
         effects |-> (IF created THEN <<"figure", "add_subplot">> ELSE <<>>)
                     \o <<"_SetupImage", "plot">>
                     \o (IF opts.cbar = PyTrue THEN <<"colorbar">> ELSE <<>>) ]

(* ---------------- imgplot ---------------- *)

\* the outcome of imgplot(**a) on a figure whose axes are figAxes
ImgplotResult(a, figAxes) ==
    LET v == FirstFailure(ImgplotChecks(a)) IN
    IF v # "ok"
    THEN [result |-> v, setupCalls |-> <<>>, axes |-> figAxes, effects |-> <<>>,
          described |-> <<>>]
    ELSE LET opts == SetupOptions(a)
             p == SetupImagePlot(opts, figAxes)
         IN IF ~Truthy(a.describe)
            THEN [result |-> "ok", setupCalls |-> <<opts>>, axes |-> p.axes,
                  effects |-> p.effects, described |-> <<>>]
            ELSE IF opts.data.t # "ndarray"
            \* data.flatten() of a list
            THEN [result |-> "AttributeError", setupCalls |-> <<opts>>, axes |-> p.axes,
                  effects |-> p.effects, described |-> <<>>]
            ELSE [result |-> "ok", setupCalls |-> <<opts>>, axes |-> p.axes,
                  effects |-> Append(p.effects, "describe"), described |-> <<opts.data>>]

(* ---------------- imghist: validation and layout ---------------- *)

BinsCheckMutant(bins) ==
    IF bins = PyNone THEN "ok"
    ELSE IF ~IsInt(bins) THEN "TypeError"
    ELSE IF ~(bins.n >= 0) THEN "ValueError" ELSE "ok"

\* bins is None, or an int (TypeError otherwise) that is > 0 (ValueError otherwise)
BinsCheck(bins) ==
    IF bins = PyNone THEN "ok"
    ELSE IF ~IsInt(bins) THEN "TypeError"
    ELSE IF ~(bins.n > 0) THEN "ValueError" ELSE "ok"

\* bins = "auto" if bins is None
HistBins(bins) == IF bins = PyNone THEN PyStr("auto") ELSE bins

NormOrientationMutant(o) ==
    IF o = PyStr("vertical") THEN PyStr("vertical")
    ELSE IF o \in {PyStr("h"), PyStr("horizontal")} THEN PyStr("horizontal")
    ELSE o

\* "v" and "vertical" become "vertical", "h" and "horizontal" become "horizontal"
NormOrientation(o) ==
    IF o \in {PyStr("v"), PyStr("vertical")} THEN PyStr("vertical")
    ELSE IF o \in {PyStr("h"), PyStr("horizontal")} THEN PyStr("horizontal")
    ELSE o

\* the else branch of the orientation test
OrientationCheck(o) ==
    IF NormOrientation(o) \in {PyStr("vertical"), PyStr("horizontal")}
    THEN "ok" ELSE "ValueError"

\* gridspec.GridSpec(1, 2, ...) for vertical, GridSpec(2, 1, ...) for horizontal
GridOf(o) == IF NormOrientation(o) = PyStr("vertical") THEN <<1, 2>> ELSE <<2, 1>>

\* the keywords imghist passes on to imgplot: ax is the first panel, the
\* orientation is normalised, gray is not passed
PassedToImgplot(a) ==
    [a EXCEPT !.ax = PyAxes, !.gray = PyNone, !.orientation = NormOrientation(a.orientation)]

(* ---------------- imghist: histogram panel ---------------- *)

\* the number of bins numpy's "auto" rule picks for the data of the model
AutoBins == 3

\* lowest bin edge and bin width of the histogram of the data of the model
DataMin == 0

BinWidth == 1

\* the number of bars ax.hist draws
NumBars(bins) == IF bins = PyStr("auto") THEN AutoBins ELSE bins.n

\* the bin edges ax.hist returns
HistEdges(bins) == [i \in 1..(NumBars(bins) + 1) |-> DataMin + (i - 1) * BinWidth]

\* bin_centers = bins[:-1] + bins[1:]
BinCenters(edges) == [i \in 1..(Len(edges) - 1) |-> edges[i] + edges[i + 1]]

RECURSIVE SeqMin(_)
SeqMin(s) == IF Len(s) = 1 THEN s[1]
             ELSE LET m == SeqMin(Tail(s)) IN IF s[1] < m THEN s[1] ELSE m

RECURSIVE SeqMax(_)
SeqMax(s) == IF Len(s) = 1 THEN s[1]
             ELSE LET m == SeqMax(Tail(s)) IN IF s[1] > m THEN s[1] ELSE m

\* col = bin_centers - min(bin_centers); col /= max(col), as fractions <<num, den>>
\* (den = 0 is the nan of 0/0)
BarColours(centers) ==
    LET shifted == [i \in 1..Len(centers) |-> centers[i] - SeqMin(centers)]
    IN [i \in 1..Len(centers) |-> <<shifted[i], SeqMax(shifted)>>]

\* if not showticks: ax2.get_xaxis().set_visible(False); get_yaxis likewise
TicksVisible(showticks) == Truthy(showticks)

FrameOnMutant(showticks) == Truthy(showticks)

\* ax2.set_frame_on(False), outside the if
FrameOn(showticks) == FALSE

\* the keys of the qualitative colormap registry _CMAP_QUAL
CMAP_QUAL_keys == {PyStr("deep")}

\* the colormap the bars are coloured with
BarCmap(cmap) ==
    IF cmap = PyNone THEN "get_cmap()"
    ELSE IF cmap \in CMAP_QUAL_keys THEN "_CMAP_QUAL"
    ELSE "plt.cm.get_cmap(cmap)"

\* the histogram panel: the hist call, ticks, frame and bar colours
HistPanel(a) ==
    LET b == HistBins(a.bins) IN
    [ bins |-> b,
      nbars |-> NumBars(b),
      orientation |-> IF NormOrientation(a.orientation) = PyStr("vertical")
                      THEN "horizontal" ELSE "vertical",
      ticks |-> TicksVisible(a.showticks),
      frame |-> FrameOn(a.showticks),
      cm |-> BarCmap(a.cmap),
      col |-> BarColours(BinCenters(HistEdges(b))) ]

(* ---------------- imghist ---------------- *)

Raised(exc, eff, ax, g, setup, descr) ==
    [result |-> exc, effects |-> eff, axes |-> ax, grid |-> g, setupCalls |-> setup,
     histCalls |-> <<>>, described |-> descr]

\* the outcome of imghist(**a)
ImghistResult(a) ==
    IF BinsCheck(a.bins) # "ok"
    THEN Raised(BinsCheck(a.bins), <<>>, <<>>, <<0, 0>>, <<>>, <<>>)
    ELSE IF OrientationCheck(a.orientation) # "ok"
    THEN Raised("ValueError", <<>>, <<>>, <<0, 0>>, <<>>, <<>>)
    ELSE
    LET g == GridOf(a.orientation)
        eff1 == <<"figure", "GridSpec", "add_subplot">>
        r == ImgplotResult(PassedToImgplot(a), <<"ax1">>)
        eff2 == eff1 \o r.effects
    IN  IF r.result # "ok"
        THEN Raised(r.result, eff2, r.axes, g, r.setupCalls, r.described)
        ELSE IF Len(r.axes) < 2
        \* cax = f.axes[1]
        THEN Raised("IndexError", eff2, r.axes, g, r.setupCalls, r.described)
        ELSE IF a.data.t # "ndarray"
        \* data.ravel() of a list, after ax2 was added
        THEN Raised("AttributeError", Append(eff2, "add_subplot"), Append(r.axes, "ax2"),
                    g, r.setupCalls, r.described)
        ELSE [result |-> "ok", effects |-> eff2 \o <<"add_subplot", "hist", "setp">>,
              axes |-> Append(r.axes, "ax2"), grid |-> g, setupCalls |-> r.setupCalls,
              histCalls |-> <<HistPanel(a)>>, described |-> r.described]

(* ---------------- the calls a program can make ---------------- *)

Bools == {PyTrue, PyFalse}

\* a value that is not a bool, where a bool is expected
BoolArgs == Bools \cup {PyInt(1)}

DataArgs == {NdArray(2), NdArray(3), ListData(3)}

CmapArgs == {PyNone, PyStr("viridis"), PyStr("deep"), PyColormap("viridis"), PyInt(5)}

\* the percentiles of the default perc = (2, 98), in every order
PercArgs == {<<lo, hi>> : lo \in {2, 98}, hi \in {2, 98}}

LabelArgs == {PyNone, PyStr("z"), PyInt(5)}

BinsArgs == {PyNone, PyFloat(2), PyTrue} \cup {PyInt(k) : k \in (-MaxBins)..MaxBins}

\* the keyword sets of a call of imgplot on the array d
ImgplotArgs(d) ==
    [ data : {d}, ax : {PyNone, PyAxes, PyInt(0)}, cmap : CmapArgs,
      gray : {PyNone, PyTrue, PyFalse, PyInt(1)}, robust : BoolArgs, perc : PercArgs,
      describe : BoolArgs, cbar : BoolArgs, orientation : {PyStr("v"), PyInt(5)},
      cbar_label : LabelArgs, showticks : BoolArgs, despine : BoolArgs, bins : {PyNone} ]

OrientationArgs ==
    {PyStr("v"), PyStr("vertical"), PyStr("h"), PyStr("horizontal"), PyStr("diagonal"),
     PyInt(5)}

\* the keywords imghist shares with imgplot; imghist has no ax and no gray
ImghistCommonArgs(d) ==
    [ data : {d}, ax : {PyNone}, cmap : CmapArgs,
      gray : {PyNone}, robust : BoolArgs, perc : PercArgs,
      describe : BoolArgs, cbar : BoolArgs, orientation : {PyStr("v")},
      cbar_label : LabelArgs, showticks : BoolArgs, despine : BoolArgs, bins : {PyNone} ]

\* the defaults of the signature, standing for "no call made yet"
NoArgs(d) ==
    [ data |-> d, ax |-> PyNone, cmap |-> PyNone, gray |-> PyNone,
      robust |-> PyFalse, perc |-> <<2, 98>>, describe |-> PyTrue, cbar |-> PyTrue,
      orientation |-> PyStr("v"), cbar_label |-> PyNone, showticks |-> PyFalse,
      despine |-> PyTrue, bins |-> PyNone ]

\* the caller holds an image array; no call has been made
Init ==
    /\ image \in DataArgs
    /\ pc = "idle"
    /\ fn = "none"
    /\ args = NoArgs(image)
    /\ result = "none"
    /\ effects = <<>>
    /\ setupCalls = <<>>
    /\ axes = <<>>
    /\ grid = <<0, 0>>
    /\ histCalls = <<>>
    /\ described = <<>>

\* a call of imgplot on the image; a caller's axes belongs to a figure with that one axes
imgplot(a) ==
    /\ pc = "idle"
    /\ LET r == ImgplotResult(a, IF a.ax = PyAxes THEN <<"ax">> ELSE <<>>) IN
       /\ pc' = "done"
       /\ fn' = "imgplot"
       /\ args' = a
       /\ result' = r.result
       /\ effects' = r.effects
       /\ setupCalls' = r.setupCalls
       /\ axes' = r.axes
       /\ described' = r.described
       /\ UNCHANGED <<image, grid, histCalls>>

\* a call of imghist on the image
imghist(a) ==
    /\ pc = "idle"
    /\ LET r == ImghistResult(a) IN
       /\ pc' = "done"
       /\ fn' = "imghist"
       /\ args' = a
       /\ result' = r.result
       /\ effects' = r.effects
       /\ setupCalls' = r.setupCalls
       /\ axes' = r.axes
       /\ grid' = r.grid
       /\ histCalls' = r.histCalls
       /\ described' = r.described
       /\ UNCHANGED image

ImgplotCall == pc = "idle" /\ \E a \in ImgplotArgs(image) : imgplot(a)

ImghistCall ==
    /\ pc = "idle"
    /\ \E b \in BinsArgs, o \in OrientationArgs : \E a \in ImghistCommonArgs(image) :
          imghist([a EXCEPT !.bins = b, !.orientation = o])

Next == ImgplotCall \/ ImghistCall

Spec == Init /\ [][Next]_vars

(* ---------------- properties ---------------- *)

Done == pc = "done"

ValidationErrors == {"TypeError", "ValueError", "AssertionError"}

Elems(q) == {q[i] : i \in 1..Len(q)}

BoolOptions == {"describe", "robust", "cbar", "showticks", "despine"}

\* the keyword set imgplot itself receives in the call of the state
Received == IF fn = "imghist" THEN PassedToImgplot(args) ELSE args

\* every check of the call passes
PassesValidation ==
    /\ fn = "imghist" => BinsCheck(args.bins) = "ok" /\ OrientationCheck(args.orientation) = "ok"
    /\ FirstFailure(ImgplotChecks(Received)) = "ok"

\* C1: whenever imgplot or imghist is called with a 3-dimensional numpy array,
\* the option set handed to _SetupImage has cbar = False and robust = False,
\* whatever the caller asked for, and no colorbar is attached
C1_RGBForcesCbarRobustOff ==
    (Done /\ IsRGB(args.data) /\ setupCalls # <<>>) =>
        /\ setupCalls[1].cbar = PyFalse
        /\ setupCalls[1].robust = PyFalse
        /\ "colorbar" \notin Elems(effects)
        /\ "cax" \notin Elems(axes)

C1_Witness ==
    /\ Done /\ IsRGB(args.data) /\ args.cbar = PyTrue /\ args.robust = PyTrue
    /\ setupCalls # <<>> /\ setupCalls[1].cbar = PyFalse

\* C2: a call that ends in a validation error has had no rendering side
\* effect: no figure, no subplot, no _SetupImage
C2_ValidationBeforeRendering ==
    (Done /\ result \in ValidationErrors) => effects = <<>> /\ setupCalls = <<>>

\* C3: imghist on a numpy array with options that pass validation returns a
\* figure with an image panel and a histogram panel, and does not raise
C3_ImghistReturnsTwoPanels ==
    (Done /\ fn = "imghist" /\ args.data.t = "ndarray" /\ PassesValidation) =>
        /\ result = "ok"
        /\ {"ax1", "ax2"} \subseteq Elems(axes)
        /\ histCalls # <<>>

\* C4 as stated: a non-bool value for describe, robust, cbar, showticks, despine
\* or gray makes the call raise a TypeError, whatever the other options are
C4_NonBoolRaisesTypeError ==
    (Done /\ (\/ \E o \in BoolOptions : ~IsBool(args[o])
              \/ fn = "imgplot" /\ args.gray \notin {PyNone, PyTrue, PyFalse})) =>
        result = "TypeError"

\* C4 as amended: a non-bool value for describe, robust, cbar, showticks or
\* despine makes the call raise before _SetupImage is called; the exception is
\* a TypeError unless an earlier check fails first (the perc assertion when
\* robust is True, the bins or orientation check of imghist). gray is not
\* type-checked: a non-bool gray raises nothing and changes nothing
C4_NonBoolRaises ==
    /\ (Done /\ \E o \in BoolOptions : ~IsBool(args[o])) =>
          /\ result \in ValidationErrors
          /\ setupCalls = <<>>
          /\ result = "AssertionError" => args.robust = PyTrue /\ ~(args.perc[1] < args.perc[2])
          /\ result = "ValueError" =>
                /\ fn = "imghist"
                /\ \/ IsInt(args.bins) /\ args.bins.n <= 0
                   \/ args.orientation \notin {PyStr("v"), PyStr("vertical"), PyStr("h"),
                                              PyStr("horizontal")}
    /\ (Done /\ fn = "imgplot" /\ ~IsBool(args.gray) /\ PassesValidation) =>
          /\ result \notin ValidationErrors
          /\ setupCalls # <<>>
          /\ setupCalls[1].data = args.data
          /\ setupCalls[1].cmap = args.cmap

C4_Witness ==
    /\ Done /\ ~IsBool(args.despine) /\ result = "TypeError"
    /\ \A o \in BoolOptions \ {"despine"} : IsBool(args[o])

\* the checks that come before the perc assertion pass
ChecksBeforePercPass ==
    /\ fn = "imghist" => BinsCheck(args.bins) = "ok" /\ OrientationCheck(args.orientation) = "ok"
    /\ CheckCmap(args.cmap) = "ok"
    /\ CheckAx(Received.ax) = "ok"
    /\ IsBool(args.describe)

\* C5: with robust = True and perc[0] >= perc[1] the call raises and never
\* reaches _SetupImage, also for 3-dimensional arrays; the exception is the
\* AssertionError when no earlier check fails. With robust = False the perc
\* pair causes no error
C5_UnorderedPercRaises ==
    /\ (Done /\ args.robust = PyTrue /\ args.perc[1] >= args.perc[2]) =>
          /\ result \in ValidationErrors
          /\ setupCalls = <<>>
          /\ ChecksBeforePercPass => result = "AssertionError"
    /\ (Done /\ args.robust = PyFalse) =>
          /\ result # "AssertionError"
          /\ PassesValidation => setupCalls # <<>>

C5_Witness ==
    /\ Done /\ IsRGB(args.data) /\ args.robust = PyTrue /\ args.perc = <<98, 2>>
    /\ result = "AssertionError" /\ setupCalls = <<>>

\* the outcome of the call of the state
Outcome ==
    [result |-> result, effects |-> effects, axes |-> axes, grid |-> grid,
     setupCalls |-> setupCalls, histCalls |-> histCalls, described |-> described]

\* C6: in imghist "v" gives the outcome of "vertical" (1x2 grid), "h" that of
\* "horizontal" (2x1 grid), any other string raises a ValueError once the
\* bins check has passed, and the orientation that reaches _SetupImage
\* through imgplot is "vertical" or "horizontal"
C6_OrientationNormalised ==
    (Done /\ fn = "imghist") =>
        /\ args.orientation = PyStr("v") =>
              /\ Outcome = ImghistResult([args EXCEPT !.orientation = PyStr("vertical")])
              /\ BinsCheck(args.bins) = "ok" => grid = <<1, 2>>
        /\ args.orientation = PyStr("h") =>
              /\ Outcome = ImghistResult([args EXCEPT !.orientation = PyStr("horizontal")])
              /\ BinsCheck(args.bins) = "ok" => grid = <<2, 1>>
        /\ args.orientation = PyStr("vertical") /\ BinsCheck(args.bins) = "ok" => grid = <<1, 2>>
        /\ args.orientation = PyStr("horizontal") /\ BinsCheck(args.bins) = "ok" => grid = <<2, 1>>
        /\ ( /\ IsStr(args.orientation)
             /\ args.orientation.s \notin {"v", "vertical", "h", "horizontal"}
             /\ BinsCheck(args.bins) = "ok" ) =>
              result = "ValueError" /\ effects = <<>>
        /\ setupCalls # <<>> =>
              setupCalls[1].orientation \in {PyStr("vertical"), PyStr("horizontal")}

C6_Witness ==
    /\ Done /\ fn = "imghist" /\ args.orientation = PyStr("v") /\ result = "ok"
    /\ grid = <<1, 2>> /\ setupCalls[1].orientation = PyStr("vertical")

RestValid ==
    /\ fn = "imghist" => BinsCheck(args.bins) = "ok"
    /\ CheckAx(Received.ax) = "ok"
    /\ \A o \in BoolOptions : IsBool(args[o])
    /\ PercCheck(args.robust, args.perc) = "ok"

\* C8: in imgplot and imghist a cmap that is not None, a str or a Colormap,
\* a cbar_label that is not None or a str, and an orientation that is not a
\* str each make the call fail with a TypeError (the other options being valid)
C8_WrongTypeRaisesTypeError ==
    (Done /\ RestValid /\ (\/ args.cmap.t \notin {"NoneType", "str", "Colormap"}
                           \/ args.cbar_label.t \notin {"NoneType", "str"}
                           \/ ~IsStr(args.orientation))) =>
        result = "TypeError"

\* C9: the array handed to _SetupImage (and described) is the grayscale
\* conversion of the input iff the input is a 3-dimensional numpy array and
\* gray is True, and the caller's array otherwise; the cmap handed on is "gray"
\* iff gray is True and the caller's cmap is None, and the caller's cmap otherwise
C9_GrayConversion ==
    (Done /\ setupCalls # <<>>) =>
        LET o == setupCalls[1]
            a == Received IN
        /\ (o.data.src = "rgb2gray") <=>
              (a.data.t = "ndarray" /\ a.data.ndim = 3 /\ a.gray = PyTrue)
        /\ o.data.src = "rgb2gray" => o.data.t = "ndarray" /\ o.data.ndim = 2
        /\ o.data.src # "rgb2gray" => o.data = a.data
        /\ described # <<>> => described[1] = o.data
        /\ (a.gray = PyTrue /\ a.cmap = PyNone) => o.cmap = PyStr("gray")
        /\ ~(a.gray = PyTrue /\ a.cmap = PyNone) => o.cmap = a.cmap

C9_Witness ==
    /\ Done /\ fn = "imgplot" /\ IsRGB(args.data) /\ args.gray = PyTrue
    /\ args.cmap = PyStr("viridis") /\ setupCalls # <<>>
    /\ setupCalls[1].data.src = "rgb2gray" /\ described # <<>>

\* C10 as stated: on the histogram panel ticks and frame are both suppressed
\* when showticks is False and neither is suppressed when showticks is True
C10_TicksAndFrameFollowShowticks ==
    (Done /\ histCalls # <<>>) =>
        /\ args.showticks = PyFalse => ~histCalls[1].ticks /\ ~histCalls[1].frame
        /\ args.showticks = PyTrue => histCalls[1].ticks /\ histCalls[1].frame

\* C10 as amended: on the histogram panel the ticks are suppressed when
\* showticks is False and kept when it is True; the frame is suppressed in
\* both cases
C10_TicksFollowShowticksFrameOff ==
    (Done /\ histCalls # <<>>) =>
        /\ args.showticks = PyFalse => ~histCalls[1].ticks /\ ~histCalls[1].frame
        /\ args.showticks = PyTrue => histCalls[1].ticks /\ ~histCalls[1].frame

C10_Witness ==
    /\ Done /\ histCalls # <<>> /\ args.showticks = PyTrue
    /\ histCalls[1].ticks /\ ~histCalls[1].frame

\* C11: on every histogram panel imghist draws, for every accepted bin count
\* (bins = 1 included), the colour value of each bar is the min-max
\* normalisation of the bin centres: defined (no division by zero), within
\* [0, 1], 0 for the lowest bin, 1 for the highest and non-decreasing; and the
\* colormap is the image panel's: the default when cmap is None, the
\* _CMAP_QUAL entry when cmap is one of its keys, the named colormap otherwise
C11_BarColoursNormalised ==
    (Done /\ histCalls # <<>>) =>
        LET h == histCalls[1]
            n == Len(h.col) IN
        /\ n = h.nbars
        /\ \A i \in 1..n :
              /\ h.col[i][2] # 0
              /\ 0 <= h.col[i][1] /\ h.col[i][1] <= h.col[i][2]
        /\ h.col[1][1] = 0
        /\ h.col[n][1] = h.col[n][2]
        /\ \A i \in 1..(n - 1) : h.col[i][1] <= h.col[i + 1][1]
        /\ setupCalls[1].cmap = args.cmap
        /\ args.cmap = PyNone => h.cm = "get_cmap()"
        /\ args.cmap \in CMAP_QUAL_keys => h.cm = "_CMAP_QUAL"
        /\ (args.cmap # PyNone /\ args.cmap \notin CMAP_QUAL_keys) =>
              h.cm = "plt.cm.get_cmap(cmap)"

====
